---------------------------- MODULE Spec2Model ----------------------------
(***************************************************************************)
(* A model of the cobrowse demo: its token server (server.js) with the     *)
(* two browser pages that use it.  Of the server: the token                *)
(* generation routine generateToken, the JSON body parser parseBody, the   *)
(* /token handler handleTokenRequest and the HTTP dispatcher around them.  *)
(*                                                                         *)
(* Text is modelled character by character: a JavaScript string is a       *)
(* sequence of one-character strings, so that JSON.stringify, JSON.parse   *)
(* and the URL-safe base64 encoding are computed, not assumed.  The only   *)
(* thing left symbolic is the SHA-256 compression inside the HMAC: a       *)
(* digest is an opaque symbol determined by the padded key block and the   *)
(* message (no collisions).                                                *)
(***************************************************************************)
EXTENDS Integers, Sequences, FiniteSets, TLC

(***************************************************************************)
(* Bind(value, Body) is LET x == value IN Body(x) with the value computed  *)
(* once, however often the body reads it.                                  *)
(***************************************************************************)
Bind(value, Body(_)) == CHOOSE result \in {Body(x) : x \in {value}} : TRUE

(***************************************************************************)
(* Characters.  The modelled alphabet is printable ASCII plus U+0000.      *)
(***************************************************************************)
NUL == "NUL"

\* U+0060, which a TLA+ string literal cannot hold.
GRAVE == "GRAVE"

Ascii ==
    <<" ", "!", "\"", "#", "$", "%", "&", "'", "(", ")", "*", "+", ",", "-",
      ".", "/", "0", "1", "2", "3", "4", "5", "6", "7", "8", "9", ":", ";",
      "<", "=", ">", "?", "@", "A", "B", "C", "D", "E", "F", "G", "H", "I",
      "J", "K", "L", "M", "N", "O", "P", "Q", "R", "S", "T", "U", "V", "W",
      "X", "Y", "Z", "[", "\\", "]", "^", "_", GRAVE, "a", "b", "c", "d", "e",
      "f", "g", "h", "i", "j", "k", "l", "m", "n", "o", "p", "q", "r", "s",
      "t", "u", "v", "w", "x", "y", "z", "{", "|", "}", "~">>

AsciiBase == 31

CharCodes ==
    [c \in {Ascii[i] : i \in 1..Len(Ascii)} |->
        AsciiBase + (CHOOSE i \in 1..Len(Ascii) : Ascii[i] = c)]

\* The UTF-8 byte of a character of the alphabet (Buffer.from(json)).
charCode(c) == IF c = NUL THEN 0 ELSE CharCodes[c]

DigitChars == <<"0", "1", "2", "3", "4", "5", "6", "7", "8", "9">>

DigitValues == [c \in {DigitChars[i] : i \in 1..10} |->
                  (CHOOSE i \in 1..10 : DigitChars[i] = c) - 1]

IsDigit(c) == c \in DOMAIN DigitValues

\* Number.prototype.toString for a non-negative integer.
RECURSIVE digits(_)
digits(n) ==
    IF n < 10 THEN <<DigitChars[n + 1]>>
    ELSE digits(n \div 10) \o <<DigitChars[(n % 10) + 1]>>

\* The decimal text of an integer, as a template literal or JSON prints it.
numberToString(n) == IF n < 0 THEN <<"-">> \o digits(0 - n) ELSE digits(n)

(***************************************************************************)
(* JavaScript values: a pair <<type, value>>.  An object is the sequence   *)
(* of its <<name, value>> members in insertion order.                      *)
(***************************************************************************)
Str(s) == <<"string", s>>
Num(n) == <<"number", n>>
Bool(b) == <<"boolean", b>>
Null == <<"null", 0>>
Undefined == <<"undefined", 0>>
Obj(members) == <<"object", members>>
Arr(elements) == <<"array", elements>>

typeOf(v) == v[1]
valueOf(v) == v[2]

\* ToBoolean, as the || operator applies it.
truthy(v) ==
    CASE typeOf(v) = "undefined" -> FALSE
      [] typeOf(v) = "null" -> FALSE
      [] typeOf(v) = "boolean" -> valueOf(v)
      [] typeOf(v) = "number" -> valueOf(v) # 0
      [] typeOf(v) = "string" -> valueOf(v) # <<>>
      [] OTHER -> TRUE

\* a || b
or(a, b) == IF truthy(a) THEN a ELSE b

hasMember(members, name) == \E i \in 1..Len(members) : members[i][1] = name

memberValue(members, name) ==
    members[CHOOSE i \in 1..Len(members) : members[i][1] = name][2]

\* obj[name] = value: an existing member keeps its place.
setMember(members, name, value) ==
    IF hasMember(members, name)
    THEN [i \in 1..Len(members) |->
            IF members[i][1] = name THEN <<name, value>> ELSE members[i]]
    ELSE Append(members, <<name, value>>)

\* v[name] for an own data property name that no prototype defines:
\* <<"throw", ...>> on null and undefined, the member or undefined otherwise.
getProperty(v, name) ==
    CASE typeOf(v) \in {"null", "undefined"} -> <<"throw", Undefined>>
      [] typeOf(v) = "object" ->
            IF hasMember(valueOf(v), name)
            THEN <<"return", memberValue(valueOf(v), name)>>
            ELSE <<"return", Undefined>>
      [] OTHER -> <<"return", Undefined>>

(***************************************************************************)
(* JSON.stringify                                                          *)
(***************************************************************************)
quoteChar(c) ==
    CASE c = "\"" -> <<"\\", "\"">>
      [] c = "\\" -> <<"\\", "\\">>
      [] c = NUL -> <<"\\", "u", "0", "0", "0", "0">>
      [] OTHER -> <<c>>

\* The characters first..last of s, each escaped (by halves, which keeps the
\* evaluation shallow on a long string).
RECURSIVE quoteChars(_, _, _)
quoteChars(s, first, last) ==
    IF first > last THEN <<>>
    ELSE IF first = last THEN quoteChar(s[first])
    ELSE LET middle == (first + last) \div 2
         IN  quoteChars(s, first, middle) \o quoteChars(s, middle + 1, last)

quote(s) == <<"\"">> \o quoteChars(s, 1, Len(s)) \o <<"\"">>

\* undefined has no JSON text: an object member holding it is left out and an
\* array element holding it prints as null.
RECURSIVE JSONstringify(_)
RECURSIVE stringifyMembers(_, _, _)
RECURSIVE stringifyElements(_, _)
JSONstringify(v) ==
    CASE typeOf(v) = "string" -> quote(valueOf(v))
      [] typeOf(v) = "number" -> numberToString(valueOf(v))
      [] typeOf(v) = "boolean" ->
            IF valueOf(v) THEN <<"t", "r", "u", "e">>
            ELSE <<"f", "a", "l", "s", "e">>
      [] typeOf(v) = "null" -> <<"n", "u", "l", "l">>
      [] typeOf(v) = "object" ->
            <<"{">> \o stringifyMembers(valueOf(v), 1, TRUE) \o <<"}">>
      [] typeOf(v) = "array" ->
            <<"[">> \o stringifyElements(valueOf(v), 1) \o <<"]">>

stringifyMembers(members, i, first) ==
    IF i > Len(members) THEN <<>>
    ELSE IF typeOf(members[i][2]) = "undefined"
         THEN stringifyMembers(members, i + 1, first)
         ELSE (IF first THEN <<>> ELSE <<",">>)
              \o quote(members[i][1]) \o <<":">>
              \o JSONstringify(members[i][2])
              \o stringifyMembers(members, i + 1, FALSE)

stringifyElements(elements, i) ==
    IF i > Len(elements) THEN <<>>
    ELSE (IF i = 1 THEN <<>> ELSE <<",">>)
         \o (IF typeOf(elements[i]) = "undefined"
             THEN <<"n", "u", "l", "l">>
             ELSE JSONstringify(elements[i]))
         \o stringifyElements(elements, i + 1)

(***************************************************************************)
(* JSON.parse.  A parse step returns <<ok, value, next>>: whether the text *)
(* from position i starts with the construct, its value, and the position  *)
(* after it.  Numbers are integers and string escapes are those that yield *)
(* a character of the alphabet; every text the model feeds the parser      *)
(* stays inside that fragment.                                             *)
(***************************************************************************)
Failed == <<FALSE, Undefined, 0>>

startsWith(s, i, word) ==
    /\ i + Len(word) - 1 <= Len(s)
    /\ \A k \in 1..Len(word) : s[i + k - 1] = word[k]

RECURSIVE skipWhitespace(_, _)
skipWhitespace(s, i) ==
    IF i <= Len(s) /\ s[i] = " " THEN skipWhitespace(s, i + 1) ELSE i

\* The first position from i on that holds a quote, a backslash or a control
\* character, and Len(s) + 1 when there is none.
plainEnd(s, i) ==
    CHOOSE j \in i..(Len(s) + 1) :
        /\ j > Len(s) \/ s[j] \in {"\"", "\\", NUL}
        /\ \A k \in i..(j - 1) : s[k] \notin {"\"", "\\", NUL}

\* The rest of a string whose opening quote is read: plain characters up to
\* the closing quote or the next escape.
RECURSIVE parseChars(_, _, _)
parseChars(s, i, acc) ==
    Bind(plainEnd(s, i), LAMBDA j :
    Bind(acc \o SubSeq(s, i, j - 1), LAMBDA plain :
        IF j > Len(s) THEN Failed
        ELSE IF s[j] = "\"" THEN <<TRUE, Str(plain), j + 1>>
        ELSE IF s[j] = NUL THEN Failed
        ELSE IF j + 1 <= Len(s) /\ s[j + 1] \in {"\"", "\\", "/"}
             THEN parseChars(s, j + 2, Append(plain, s[j + 1]))
             ELSE IF startsWith(s, j + 1, <<"u", "0", "0", "0", "0">>)
                  THEN parseChars(s, j + 6, Append(plain, NUL))
                  ELSE Failed))

RECURSIVE parseDigits(_, _, _)
parseDigits(s, i, acc) ==
    IF i <= Len(s) /\ IsDigit(s[i])
    THEN parseDigits(s, i + 1, acc * 10 + DigitValues[s[i]])
    ELSE <<TRUE, Num(acc), i>>

\* -? (0 | [1-9][0-9]*), with no fraction or exponent after it.
parseNumber(s, i) ==
    LET neg == i <= Len(s) /\ s[i] = "-"
        j == IF neg THEN i + 1 ELSE i
        r == IF j <= Len(s) /\ s[j] = "0" THEN <<TRUE, Num(0), j + 1>>
             ELSE parseDigits(s, j, 0)
    IN  IF j > Len(s) \/ ~IsDigit(s[j]) THEN Failed
        ELSE IF r[3] <= Len(s) /\ (IsDigit(s[r[3]]) \/ s[r[3]] \in {".", "e", "E"})
             THEN Failed
             ELSE <<TRUE, Num(IF neg THEN 0 - r[2][2] ELSE r[2][2]), r[3]>>

RECURSIVE parseValue(_, _)
RECURSIVE parseMember(_, _)
RECURSIVE parseMembers(_, _, _)
RECURSIVE parseElements(_, _, _)
parseValue(s, i0) ==
    Bind(skipWhitespace(s, i0), LAMBDA i :
        IF i > Len(s) THEN Failed
        ELSE IF s[i] = "{" THEN
            LET j == skipWhitespace(s, i + 1)
            IN  IF j <= Len(s) /\ s[j] = "}" THEN <<TRUE, Obj(<<>>), j + 1>>
                ELSE parseMembers(s, j, <<>>)
        ELSE IF s[i] = "[" THEN
            LET j == skipWhitespace(s, i + 1)
            IN  IF j <= Len(s) /\ s[j] = "]" THEN <<TRUE, Arr(<<>>), j + 1>>
                ELSE parseElements(s, j, <<>>)
        ELSE IF s[i] = "\"" THEN parseChars(s, i + 1, <<>>)
        ELSE IF startsWith(s, i, <<"t", "r", "u", "e">>)
             THEN <<TRUE, Bool(TRUE), i + 4>>
        ELSE IF startsWith(s, i, <<"f", "a", "l", "s", "e">>)
             THEN <<TRUE, Bool(FALSE), i + 5>>
        ELSE IF startsWith(s, i, <<"n", "u", "l", "l">>)
             THEN <<TRUE, Null, i + 4>>
        ELSE parseNumber(s, i))

\* "name" : value, then a comma and more members or the closing brace.  A
\* name given twice keeps its first place and its last value.
parseMember(s, i0) ==
    Bind(skipWhitespace(s, i0), LAMBDA i :
    Bind(IF i <= Len(s) /\ s[i] = "\"" THEN parseChars(s, i + 1, <<>>)
         ELSE Failed, LAMBDA name :
    Bind(IF name[1] THEN skipWhitespace(s, name[3]) ELSE 0, LAMBDA colon :
    Bind(IF name[1] /\ colon <= Len(s) /\ s[colon] = ":"
         THEN parseValue(s, colon + 1) ELSE Failed, LAMBDA val :
        IF val[1] THEN <<TRUE, <<name[2][2], val[2]>>, skipWhitespace(s, val[3])>>
        ELSE Failed))))

parseMembers(s, i0, acc) ==
    Bind(parseMember(s, i0), LAMBDA member :
    Bind(IF member[1] THEN setMember(acc, member[2][1], member[2][2]) ELSE acc,
         LAMBDA members :
        IF ~member[1] \/ member[3] > Len(s) THEN Failed
        ELSE IF s[member[3]] = "}" THEN <<TRUE, Obj(members), member[3] + 1>>
        ELSE IF s[member[3]] = "," THEN parseMembers(s, member[3] + 1, members)
        ELSE Failed))

parseElements(s, i0, acc) ==
    Bind(parseValue(s, i0), LAMBDA val :
    Bind(IF val[1] THEN skipWhitespace(s, val[3]) ELSE 0, LAMBDA j :
    Bind(IF val[1] THEN Append(acc, val[2]) ELSE acc, LAMBDA elements :
        IF ~val[1] \/ j > Len(s) THEN Failed
        ELSE IF s[j] = "]" THEN <<TRUE, Arr(elements), j + 1>>
        ELSE IF s[j] = "," THEN parseElements(s, j + 1, elements)
        ELSE Failed)))

\* JSON.parse(text): <<"return", value>>, or <<"throw", ...>> (a SyntaxError)
\* when the text is not one JSON value.
JSONparse(text) ==
    Bind(parseValue(text, 1), LAMBDA r :
        IF r[1] /\ skipWhitespace(text, r[3]) > Len(text)
        THEN <<"return", r[2]>>
        ELSE <<"throw", Undefined>>)

(***************************************************************************)
(* Base64                                                                  *)
(***************************************************************************)
Base64Alphabet ==
    <<"A", "B", "C", "D", "E", "F", "G", "H", "I", "J", "K", "L", "M", "N",
      "O", "P", "Q", "R", "S", "T", "U", "V", "W", "X", "Y", "Z", "a", "b",
      "c", "d", "e", "f", "g", "h", "i", "j", "k", "l", "m", "n", "o", "p",
      "q", "r", "s", "t", "u", "v", "w", "x", "y", "z", "0", "1", "2", "3",
      "4", "5", "6", "7", "8", "9", "+", "/">>

sextet(n) == Base64Alphabet[(n % 64) + 1]

\* Buffer.prototype.toString('base64'): three bytes make four characters, and
\* a last group of one or two bytes is padded with "=".
toBase64(bytes) ==
    LET byteAt(k) == IF k <= Len(bytes) THEN bytes[k] ELSE 0
        group(g) == byteAt(3 * g + 1) * 65536 + byteAt(3 * g + 2) * 256
                    + byteAt(3 * g + 3)
    IN  [j \in 1..(4 * ((Len(bytes) + 2) \div 3)) |->
            LET g == (j - 1) \div 4
                place == (j - 1) % 4
            IN  IF place >= 2 /\ 3 * g + place > Len(bytes) THEN "="
                ELSE CASE place = 0 -> sextet(group(g) \div 262144)
                       [] place = 1 -> sextet(group(g) \div 4096)
                       [] place = 2 -> sextet(group(g) \div 64)
                       [] OTHER -> sextet(group(g))]

\* Buffer.from(string): the UTF-8 bytes of a string of the alphabet.
BufferFrom(s) == [i \in 1..Len(s) |-> charCode(s[i])]

\* String.prototype.replace(/from/g, to) for a one-character pattern.
replace(s, from, to) == [i \in 1..Len(s) |-> IF s[i] = from THEN to ELSE s[i]]

\* String.prototype.replace(/=/g, '')
stripPadding(s) == SelectSeq(s, LAMBDA c : c # "=")

(***************************************************************************)
(* CONFIGURATION (server.js)                                               *)
(***************************************************************************)
KEY_PLACEHOLDER ==
    <<"Y", "O", "U", "R", "_", "S", "D", "K", "_", "K", "E", "Y", "_", "H",
      "E", "R", "E">>
SECRET_PLACEHOLDER ==
    <<"Y", "O", "U", "R", "_", "S", "D", "K", "_", "S", "E", "C", "R", "E",
      "T", "_", "H", "E", "R", "E">>
TOKEN_EXPIRY == 3600
ZOOM_DOMAIN ==
    <<"u", "s", "0", "1", "-", "z", "c", "b", ".", "z", "o", "o", "m", ".",
      "u", "s">>

\* process.env.NAME || placeholder: an unset variable reads as undefined.
envOr(value, placeholder) == valueOf(or(value, Str(placeholder)))

\* The CONFIG object built from the environment at startup.
makeConfig(envKey, envSecret) ==
    [SDK_KEY |-> envOr(envKey, KEY_PLACEHOLDER),
     SDK_SECRET |-> envOr(envSecret, SECRET_PLACEHOLDER)]

(***************************************************************************)
(* Console output.  A line is the text console.log writes.  A timestamp    *)
(* (toISOString) is printed as the decimal clock reading, and an object    *)
(* in the style of util.inspect.                                           *)
(***************************************************************************)
toISOString(t) == digits(t)

\* String(v), as a template literal converts a value.
RECURSIVE templateString(_)
RECURSIVE joinElements(_, _)
templateString(v) ==
    CASE typeOf(v) = "string" -> valueOf(v)
      [] typeOf(v) = "number" -> numberToString(valueOf(v))
      [] typeOf(v) = "boolean" -> JSONstringify(v)
      [] typeOf(v) = "null" -> JSONstringify(v)
      [] typeOf(v) = "undefined" -> <<"u", "n", "d", "e", "f", "i", "n", "e", "d">>
      [] typeOf(v) = "object" -> <<"[", "o", "b", "j", "e", "c", "t", " ", "O", "b", "j", "e", "c", "t",
      "]">>
      [] typeOf(v) = "array" -> joinElements(valueOf(v), 1)

joinElements(elements, i) ==
    IF i > Len(elements) THEN <<>>
    ELSE (IF i = 1 THEN <<>> ELSE <<",">>)
         \o (IF typeOf(elements[i]) \in {"null", "undefined"} THEN <<>>
             ELSE templateString(elements[i]))
         \o joinElements(elements, i + 1)

RECURSIVE inspect(_)
RECURSIVE inspectMembers(_, _)
RECURSIVE inspectElements(_, _)
inspect(v) ==
    CASE typeOf(v) = "string" -> <<"'">> \o valueOf(v) \o <<"'">>
      [] typeOf(v) = "object" ->
            IF valueOf(v) = <<>> THEN <<"{", "}">>
            ELSE <<"{", " ">> \o inspectMembers(valueOf(v), 1) \o <<" ", "}">>
      [] typeOf(v) = "array" ->
            IF valueOf(v) = <<>> THEN <<"[", "]">>
            ELSE <<"[", " ">> \o inspectElements(valueOf(v), 1) \o <<" ", "]">>
      [] OTHER -> templateString(v)

inspectMembers(members, i) ==
    IF i > Len(members) THEN <<>>
    ELSE (IF i = 1 THEN <<>> ELSE <<",", " ">>)
         \o members[i][1] \o <<":", " ">> \o inspect(members[i][2])
         \o inspectMembers(members, i + 1)

inspectElements(elements, i) ==
    IF i > Len(elements) THEN <<>>
    ELSE (IF i = 1 THEN <<>> ELSE <<",", " ">>)
         \o inspect(elements[i]) \o inspectElements(elements, i + 1)

(***************************************************************************)
(* The state of the server process.                                        *)
(*   CONFIG    the credentials read from the environment at startup        *)
(*   clock     Date.now(), in milliseconds                                 *)
(*   request   the request handled last                                    *)
(*   response  the response written to it                                  *)
(*   log       the console lines written while handling it                 *)
(*   issued    the calls of generateToken so far, oldest first             *)
(*                                                                         *)
(* and of the two browser pages that use the server:                       *)
(*                                                                         *)
(*   customer  the customer page (customer/main.js)                        *)
(*   agent     the agent page (agent/main.js)                              *)
(*   random    the values Math.random() is going to return, next first     *)
(*   pinCode   the PIN made by generatePinCode last                        *)
(***************************************************************************)
VARIABLES CONFIG, clock, request, response, log, issued,
          customer, agent, random, pinCode

pages == <<customer, agent, random, pinCode>>

vars == <<CONFIG, clock, request, response, log, issued, pages>>

\* No page is open.
NoPages ==
    /\ customer = <<>>
    /\ agent = <<>>
    /\ random = <<>>
    /\ pinCode = Undefined

(***************************************************************************)
(* HMAC-SHA256 (crypto.createHmac).  The key is the UTF-8 text of the      *)
(* secret, right-padded with zero bytes to the 64-byte block of SHA-256    *)
(* (RFC 2104; a longer key would be hashed first, and the secrets of the   *)
(* model are shorter).  The digest is the opaque symbol of the key block   *)
(* and the message; its base64 text is modelled as that one symbol.        *)
(***************************************************************************)
HmacBlockSize == 64

hmacKeyBlock(secret) ==
    [i \in 1..HmacBlockSize |-> IF i <= Len(secret) THEN charCode(secret[i]) ELSE 0]

hmacDigestBase64(secret, message) == <<ToString(<<hmacKeyBlock(secret), message>>)>>

(***************************************************************************)
(* TOKEN GENERATION (server.js, generateToken)                             *)
(***************************************************************************)
MillisPerSecond == 1000

\* Math.floor(Date.now() / 1000)
now(t) == t \div MillisPerSecond

\* A variant of exp that adds the lifetime in the clock's unit, milliseconds.
exp_milliseconds(nowSeconds) == nowSeconds + TOKEN_EXPIRY * MillisPerSecond

exp(nowSeconds) == nowSeconds + TOKEN_EXPIRY

\* A variant of uniqueId that numbers the calls of the run: a counter kept
\* between calls, next to the clock reading.
uniqueId_counter(t) ==
    <<"u", "s", "e", "r", "_">> \o digits(t) \o <<"_">> \o digits(Len(issued))

uniqueId(t) == <<"u", "s", "e", "r", "_">> \o digits(t)

header == Obj(<< <<<<"a", "l", "g">>, Str(<<"H", "S", "2", "5", "6">>)>>,
                 <<<<"t", "y", "p">>, Str(<<"J", "W", "T">>)>> >>)

\* A variant of payload that always issues the customer role.
payload_customerOnly(sdkKey, role, nowSeconds, expSeconds, id) ==
    Obj(<< <<<<"a", "p", "p", "_", "k", "e", "y">>, sdkKey>>,
           <<<<"r", "o", "l", "e", "_", "t", "y", "p", "e">>, Num(1)>>,
           <<<<"i", "a", "t">>, Num(nowSeconds)>>,
           <<<<"e", "x", "p">>, Num(expSeconds)>>,
           <<<<"u", "s", "e", "r", "_", "i", "d">>, Str(id)>>,
           <<<<"u", "s", "e", "r", "_", "n", "a", "m", "e">>, Str(id)>>,
           <<<<"e", "n", "a", "b", "l", "e", "_", "b", "y", "o", "p">>,
             Num(1)>> >>)

payload(sdkKey, role, nowSeconds, expSeconds, id) ==
    Obj(<< <<<<"a", "p", "p", "_", "k", "e", "y">>, sdkKey>>,
           <<<<"r", "o", "l", "e", "_", "t", "y", "p", "e">>, role>>,
           <<<<"i", "a", "t">>, Num(nowSeconds)>>,
           <<<<"e", "x", "p">>, Num(expSeconds)>>,
           <<<<"u", "s", "e", "r", "_", "i", "d">>, Str(id)>>,
           <<<<"u", "s", "e", "r", "_", "n", "a", "m", "e">>, Str(id)>>,
           <<<<"e", "n", "a", "b", "l", "e", "_", "b", "y", "o", "p">>,
             Num(1)>> >>)

base64url(obj) ==
    stripPadding(replace(replace(
        toBase64(BufferFrom(JSONstringify(obj))), "+", "-"), "/", "_"))

signatureInput(headerEncoded, payloadEncoded) ==
    headerEncoded \o <<".">> \o payloadEncoded

\* A variant of signature that keys the HMAC with the placeholder secret
\* instead of the secret passed.
signature_placeholderKey(sdkSecret, input) ==
    stripPadding(replace(replace(
        hmacDigestBase64(SECRET_PLACEHOLDER, input), "+", "-"), "/", "_"))

signature(sdkSecret, input) ==
    stripPadding(replace(replace(
        hmacDigestBase64(sdkSecret, input), "+", "-"), "/", "_"))

generatingLine(sdkKey) ==
    <<"G", "e", "n", "e", "r", "a", "t", "i", "n", "g", " ", "t", "o", "k",
      "e", "n", " ", "w", "i", "t", "h", " ", "S", "D", "K", " ", "K", "e",
      "y", ":", " ">>
    \o templateString(sdkKey)

HMAC_KEY_MESSAGE ==
    <<"T", "h", "e", " ", "\"", "k", "e", "y", "\"", " ", "a", "r", "g", "u",
      "m", "e", "n", "t", " ", "m", "u", "s", "t", " ", "b", "e", " ", "o", "f",
      " ", "t", "y", "p", "e", " ", "s", "t", "r", "i", "n", "g">>

\* generateToken(sdkKey, sdkSecret, role) with t1 and t2 the two readings of
\* Date.now() it takes.  The result is what the call does: the lines it logs,
\* whether it returns or throws, and the token it returns.  A role left out
\* (undefined) takes the default 1; createHmac throws a TypeError for a key
\* that is not a string.
generateToken(sdkKey, sdkSecret, roleArgument, t1, t2) ==
    LET role == IF typeOf(roleArgument) = "undefined" THEN Num(1) ELSE roleArgument
        headerEncoded == base64url(header)
        payloadEncoded ==
            base64url(payload(sdkKey, role, now(t1), exp(now(t1)), uniqueId(t2)))
    IN  IF typeOf(sdkSecret) # "string"
        THEN [outcome |-> "throw", log |-> <<generatingLine(sdkKey)>>,
              value |-> HMAC_KEY_MESSAGE]
        ELSE [outcome |-> "return", log |-> <<generatingLine(sdkKey)>>,
              value |-> Bind(signatureInput(headerEncoded, payloadEncoded),
                             LAMBDA input : input \o <<".">>
                                 \o signature(valueOf(sdkSecret), input))]

\* The record of one call, as the history variable issued keeps it.
callRecord(sdkKey, sdkSecret, roleArgument, t1, t2) ==
    [sdkKey |-> sdkKey, sdkSecret |-> sdkSecret, role |-> roleArgument,
     t1 |-> t1, t2 |-> t2,
     result |-> generateToken(sdkKey, sdkSecret, roleArgument, t1, t2)]

(***************************************************************************)
(* REQUEST HANDLING (server.js)                                            *)
(***************************************************************************)
GET == <<"G", "E", "T">>
POST == <<"P", "O", "S", "T">>
PUT == <<"P", "U", "T">>
OPTIONS == <<"O", "P", "T", "I", "O", "N", "S">>

TOKEN_PATH == <<"/", "t", "o", "k", "e", "n">>
HEALTH_PATH == <<"/", "h", "e", "a", "l", "t", "h">>
CUSTOMER_PATH == <<"/", "c", "u", "s", "t", "o", "m", "e", "r">>

\* parseBody: the request's text parsed as JSON, and {} for an empty text or
\* for a text that is not JSON.
parseBody(text) ==
    IF text = <<>> THEN Obj(<<>>)
    ELSE Bind(JSONparse(text), LAMBDA parsed :
            IF parsed[1] = "return" THEN parsed[2] ELSE Obj(<<>>))

\* A variant of unconfigured that rejects only when both values are
\* placeholders.
unconfigured_both(config) ==
    config.SDK_KEY = KEY_PLACEHOLDER /\ config.SDK_SECRET = SECRET_PLACEHOLDER

\* CONFIG.SDK_KEY === 'YOUR_SDK_KEY_HERE' || CONFIG.SDK_SECRET === '...'
unconfigured(config) ==
    config.SDK_KEY = KEY_PLACEHOLDER \/ config.SDK_SECRET = SECRET_PLACEHOLDER

UNCONFIGURED_MESSAGE ==
    <<"S", "D", "K", "_", "K", "E", "Y", " ", "a", "n", "d", " ", "S", "D",
      "K", "_", "S", "E", "C", "R", "E", "T", " ", "e", "n", "v", "i", "r",
      "o", "n", "m", "e", "n", "t", " ", "v", "a", "r", "i", "a", "b", "l",
      "e", "s", " ", "m", "u", "s", "t", " ", "b", "e", " ", "s", "e", "t">>

NULL_BODY_MESSAGE ==
    <<"C", "a", "n", "n", "o", "t", " ", "r", "e", "a", "d", " ", "p", "r",
      "o", "p", "e", "r", "t", "i", "e", "s", " ", "o", "f", " ", "n", "u",
      "l", "l", " ", "(", "r", "e", "a", "d", "i", "n", "g", " ", "'", "r",
      "o", "l", "e", "'", ")">>

bodyLine(body) ==
    <<"T", "o", "k", "e", "n", " ", "r", "e", "q", "u", "e", "s", "t", " ",
      "b", "o", "d", "y", ":", " ">>
    \o (IF typeOf(body) = "string" THEN valueOf(body) ELSE inspect(body))

generatedLine(t, role) ==
    <<"[">> \o toISOString(t)
    \o <<"]", " ", "T", "o", "k", "e", "n", " ", "g", "e", "n", "e", "r",
         "a", "t", "e", "d", " ", "f", "o", "r", " ", "r", "o", "l", "e",
         ":", " ">>
    \o templateString(role)

errorLine(message) ==
    <<"T", "o", "k", "e", "n", " ", "g", "e", "n", "e", "r", "a", "t", "i",
      "o", "n", " ", "e", "r", "r", "o", "r", ":", " ", "T", "y", "p", "e",
      "E", "r", "r", "o", "r", ":", " ">>
    \o message

errorResponse(message) ==
    [status |-> 500,
     body |-> JSONstringify(Obj(<< <<<<"e", "r", "r", "o", "r">>, Str(message)>> >>))]

tokenResponse(token, role) ==
    [status |-> 200,
     body |-> JSONstringify(Obj(<<
        <<<<"t", "o", "k", "e", "n">>, Str(token)>>,
        <<<<"r", "o", "l", "e">>, role>>,
        <<<<"e", "x", "p", "i", "r", "e", "s", "I", "n">>, Num(TOKEN_EXPIRY)>>,
        <<<<"d", "o", "m", "a", "i", "n">>, Str(ZOOM_DOMAIN)>> >>))]

\* The try block's first statements: the role asked for, 1 unless a POST body
\* names a truthy one.  Reading .role of a body that parsed to null throws.
requestedRole(method, body) ==
    IF method = POST
    THEN LET property == getProperty(body, <<"r", "o", "l", "e">>)
         IN  IF property[1] = "throw" THEN <<"throw", NULL_BODY_MESSAGE>>
             ELSE <<"return", or(property[2], Num(1))>>
    ELSE <<"return", Num(1)>>

\* handleTokenRequest, whole: the response it writes, the lines it logs and
\* the call of generateToken it makes (none, or one).  t1 and t2 are the
\* clock readings inside generateToken.
handleTokenRequest(config, method, text, t1, t2) ==
    Bind(parseBody(text), LAMBDA body :
    Bind(requestedRole(method, body), LAMBDA role :
        LET parseLog == IF method = POST THEN <<bodyLine(body)>> ELSE <<>>
        IN  IF role[1] = "throw"
            THEN [response |-> errorResponse(role[2]),
                  log |-> parseLog \o <<errorLine(role[2])>>,
                  calls |-> <<>>]
            ELSE IF unconfigured(config)
            THEN [response |-> errorResponse(UNCONFIGURED_MESSAGE),
                  log |-> parseLog,
                  calls |-> <<>>]
            ELSE Bind(callRecord(Str(config.SDK_KEY), Str(config.SDK_SECRET),
                                 role[2], t1, t2), LAMBDA call :
                IF call.result.outcome = "throw"
                THEN [response |-> errorResponse(call.result.value),
                      log |-> parseLog \o call.result.log
                              \o <<errorLine(call.result.value)>>,
                      calls |-> <<call>>]
                ELSE [response |-> tokenResponse(call.result.value, role[2]),
                      log |-> parseLog \o call.result.log
                              \o <<generatedLine(t2, role[2])>>,
                      calls |-> <<call>>])))

(***************************************************************************)
(* HTTP SERVER (server.js)                                                 *)
(***************************************************************************)
requestLine(t, method, pathname) ==
    <<"[">> \o toISOString(t) \o <<"]", " ">> \o method \o <<" ">> \o pathname

HEALTH_BODY == JSONstringify(Obj(<< <<<<"s", "t", "a", "t", "u", "s">>, Str(<<"o", "k">>)>> >>))

NOT_FOUND == <<"4", "0", "4", " ", "N", "o", "t", " ", "F", "o", "u", "n", "d">>
SERVER_ERROR ==
    <<"5", "0", "0", " ", "I", "n", "t", "e", "r", "n", "a", "l", " ", "S",
      "e", "r", "v", "e", "r", " ", "E", "r", "r", "o", "r">>

\* What a served file holds: a page or a bundle of the repository.
FILE_DATA == <<"<", "!", "D", "O", "C", "T", "Y", "P", "E", " ", "h", "t", "m", "l",
      ">">>

\* serveFile: the file, or 404 when it does not exist, or 500.
serveFile(fsOutcome) ==
    CASE fsOutcome = "ENOENT" -> [status |-> 404, body |-> NOT_FOUND]
      [] fsOutcome = "EIO" -> [status |-> 500, body |-> SERVER_ERROR]
      [] OTHER -> [status |-> 200, body |-> FILE_DATA]

\* The createServer callback, whole.  An OPTIONS request is answered 204
\* before anything is logged or routed.
handleRequest(config, method, pathname, text, fsOutcome, t1, t2) ==
    IF method = OPTIONS
    THEN [response |-> [status |-> 204, body |-> <<>>], log |-> <<>>,
          calls |-> <<>>]
    ELSE IF pathname = TOKEN_PATH
    THEN LET handled == handleTokenRequest(config, method, text, t1, t2)
         IN  [handled EXCEPT !.log = <<requestLine(t1, method, pathname)>> \o @]
    ELSE IF pathname = HEALTH_PATH
    THEN [response |-> [status |-> 200, body |-> HEALTH_BODY],
          log |-> <<requestLine(t1, method, pathname)>>, calls |-> <<>>]
    ELSE [response |-> serveFile(fsOutcome),
          log |-> <<requestLine(t1, method, pathname)>>, calls |-> <<>>]

\* A variant of startupBanner that prints the values it found.
startupBanner_values(config) ==
    << <<"S", "D", "K", "_", "K", "E", "Y", ":", " ">> \o config.SDK_KEY,
       <<"S", "D", "K", "_", "S", "E", "C", "R", "E", "T", ":", " ">>
       \o config.SDK_SECRET >>

\* The lines of the startup banner that depend on the configuration.
startupBanner(config) ==
    << <<"S", "D", "K", "_", "K", "E", "Y", ":", " ">>
       \o (IF config.SDK_KEY = KEY_PLACEHOLDER
           THEN <<"(", "n", "o", "t", " ", "s", "e", "t", ")">>
           ELSE <<"c", "o", "n", "f", "i", "g", "u", "r", "e", "d">>),
       <<"S", "D", "K", "_", "S", "E", "C", "R", "E", "T", ":", " ">>
       \o (IF config.SDK_SECRET = SECRET_PLACEHOLDER
           THEN <<"(", "n", "o", "t", " ", "s", "e", "t", ")">>
           ELSE <<"c", "o", "n", "f", "i", "g", "u", "r", "e", "d">>) >>

(***************************************************************************)
(* Bounds and inputs                                                       *)
(***************************************************************************)
\* How far the clock advances in a run.
MaxTicks == 1

\* How many tokens the server issues in a run.
MaxCalls == 1

\* How many calls a run of generateToken on its own makes.
MaxEncodes == 2

\* The clock starts one millisecond before a whole second, so that a run
\* holds calls in one millisecond, in one second and across a second.
InitialClock == 2 * MillisPerSecond - 1

MaxClock == InitialClock + MaxTicks

KEY_123 == <<"k", "e", "y", "1", "2", "3">>
OTHER_KEY == <<"a", "b", "c", "+", "/">>
SECRET_456 == <<"s", "e", "c", "r", "e", "t", "4", "5", "6">>
WRONG_SECRET == <<"w", "r", "o", "n", "g", "s", "e", "c", "r", "e", "t">>

\* process.env.SDK_KEY and process.env.SDK_SECRET: unset, empty or set.
EnvKeys == {Undefined, Str(<<>>), Str(KEY_123), Str(OTHER_KEY)}
EnvSecrets == {Undefined, Str(SECRET_456)}

BODY_EMPTY == <<>>
BODY_AGENT == <<"{", "\"", "r", "o", "l", "e", "\"", ":", " ", "2", "}">>
BODY_CUSTOMER ==
    <<"{", "\"", "s", "d", "k", "K", "e", "y", "\"", ":", "\"", "Y", "O",
      "U", "R", "_", "S", "D", "K", "_", "K", "E", "Y", "_", "H", "E", "R",
      "E", "\"", ",", "\"", "r", "o", "l", "e", "\"", ":", "1", "}">>
BODY_ZERO == <<"{", "\"", "r", "o", "l", "e", "\"", ":", "0", "}">>
BODY_SEVEN == <<"{", "\"", "r", "o", "l", "e", "\"", ":", "7", "}">>
BODY_STRING == <<"{", "\"", "r", "o", "l", "e", "\"", ":", "\"", "2", "\"", "}">>
BODY_NULL == <<"n", "u", "l", "l">>
BODY_FORM == <<"r", "o", "l", "e", "=", "2">>

\* The texts a client posts: nothing, the README's curl body, the customer
\* page's body (it also sends an sdkKey), other roles, null, and a text that
\* is not JSON.
RequestBodies ==
    {BODY_EMPTY, BODY_AGENT, BODY_CUSTOMER, BODY_ZERO, BODY_SEVEN,
     BODY_STRING, BODY_NULL, BODY_FORM}

Methods == {GET, POST, PUT}

NoRequest == [method |-> <<>>, pathname |-> <<>>, body |-> <<>>]

(***************************************************************************)
(* The server                                                              *)
(***************************************************************************)
Init ==
    /\ CONFIG \in {makeConfig(k, s) : k \in EnvKeys, s \in EnvSecrets}
    /\ clock = InitialClock
    /\ request = NoRequest
    /\ response = [status |-> 0, body |-> <<>>]
    /\ log = startupBanner(CONFIG)
    /\ issued = <<>>
    /\ NoPages

\* Time passes between requests.
Tick ==
    /\ clock < MaxClock
    /\ clock' = clock + 1
    /\ UNCHANGED <<CONFIG, request, response, log, issued, pages>>

\* One request served, start to end.  elapsed is the time that passes between
\* the two readings of Date.now() in generateToken.
Serve(method, pathname, text, fsOutcome, elapsed) ==
    /\ clock + elapsed <= MaxClock
    /\ \E handled \in {handleRequest(CONFIG, method, pathname, text, fsOutcome,
                                       clock, clock + elapsed)} :
        /\ request' = [method |-> method, pathname |-> pathname, body |-> text]
        /\ response' = handled.response
        /\ log' = handled.log
        /\ issued' = issued \o handled.calls
        /\ clock' = clock + elapsed
        /\ UNCHANGED <<CONFIG, pages>>

Preflight == \E pathname \in {TOKEN_PATH, HEALTH_PATH, CUSTOMER_PATH} :
    Serve(OPTIONS, pathname, <<>>, "file", 0)

\* A GET or PUT request carries no body here: only a POST body is read.
TokenRequest == \E method \in Methods, elapsed \in {0, 1} :
    \E text \in (IF method = POST THEN RequestBodies ELSE {BODY_EMPTY}) :
        /\ Len(issued) < MaxCalls
        /\ Serve(method, TOKEN_PATH, text, "file", elapsed)

HealthRequest == \E method \in Methods :
    Serve(method, HEALTH_PATH, <<>>, "file", 0)

StaticRequest == \E fsOutcome \in {"file", "ENOENT", "EIO"} :
    Serve(GET, CUSTOMER_PATH, <<>>, fsOutcome, 0)

Next == Tick \/ Preflight \/ TokenRequest \/ HealthRequest \/ StaticRequest

Spec == Init /\ [][Next]_vars

(***************************************************************************)
(* generateToken on its own: called with any key, secret and role.         *)
(***************************************************************************)
CodecKeys == {Undefined, Str(<<>>), Str(KEY_123)}
CodecSecrets == {Undefined, Str(<<>>), Str(SECRET_456), Str(WRONG_SECRET)}
CodecRoles == {Undefined, Num(1), Num(2)}

\* No server runs here: the configuration is the unset one and stays.  The
\* request is the arguments the caller passes, the same in every call of the
\* run, as in a loop around generateToken.
CodecInit ==
    /\ CONFIG = makeConfig(Undefined, Undefined)
    /\ clock = InitialClock
    /\ request \in [sdkKey : CodecKeys, sdkSecret : CodecSecrets,
                     role : CodecRoles]
    /\ response = [status |-> 0, body |-> <<>>]
    /\ log = <<>>
    /\ issued = <<>>
    /\ NoPages

\* One call of generateToken.  elapsed is the time that passes between its
\* two readings of Date.now().
Encode == \E elapsed \in {0, 1} :
    /\ clock + elapsed <= MaxClock
    /\ Len(issued) < MaxEncodes
    /\ \E call \in {callRecord(request.sdkKey, request.sdkSecret,
                                request.role, clock, clock + elapsed)} :
        /\ issued' = Append(issued, call)
        /\ log' = call.result.log
        /\ clock' = clock + elapsed
        /\ UNCHANGED <<CONFIG, request, response, pages>>

CodecNext == Tick \/ Encode

CodecSpec == CodecInit /\ [][CodecNext]_vars

(***************************************************************************)
(* Decode and Verify, the receiving party's side of the token scheme.      *)
(***************************************************************************)
Base64Values ==
    [c \in {Base64Alphabet[i] : i \in 1..64} |->
        (CHOOSE i \in 1..64 : Base64Alphabet[i] = c) - 1]

\* The pieces of s from position start on, between the occurrences of the
\* separator.
RECURSIVE splitFrom(_, _, _)
splitFrom(s, separator, start) ==
    Bind({i \in start..Len(s) : s[i] = separator}, LAMBDA at :
        IF at = {} THEN <<SubSeq(s, start, Len(s))>>
        ELSE Bind(CHOOSE i \in at : \A j \in at : i <= j, LAMBDA next :
                <<SubSeq(s, start, next - 1)>>
                \o splitFrom(s, separator, next + 1)))

split(s, separator) == splitFrom(s, separator, 1)

\* The value of a character of the URL-safe alphabet ("-" for "+", "_" for "/").
base64urlValue(c) ==
    IF c = "-" THEN 62 ELSE IF c = "_" THEN 63 ELSE Base64Values[c]

\* URL-safe base64 without padding, back to bytes: <<ok, bytes>>.
fromBase64url(s) ==
    IF \E i \in 1..Len(s) :
          s[i] \notin ((DOMAIN Base64Values) \ {"+", "/"}) \cup {"-", "_"}
    THEN <<FALSE, <<>>>>
    ELSE IF Len(s) % 4 = 1 THEN <<FALSE, <<>>>>
    ELSE <<TRUE,
           SubSeq([k \in 1..((Len(s) * 6) \div 8) |->
              LET first == ((8 * (k - 1)) \div 6) + 1
                  offset == (8 * (k - 1)) % 6
                  pair == base64urlValue(s[first]) * 64
                          + base64urlValue(s[first + 1])
              IN  (pair \div (IF offset = 0 THEN 16
                              ELSE IF offset = 2 THEN 4 ELSE 1)) % 256],
              1, (Len(s) * 6) \div 8)>>

\* The string of a sequence of bytes of the alphabet: <<ok, string>>.
stringFromBytes(bytes) ==
    IF \E i \in 1..Len(bytes) :
          bytes[i] # 0 /\ bytes[i] \notin (AsciiBase + 1)..(AsciiBase + Len(Ascii))
    THEN <<FALSE, <<>>>>
    ELSE <<TRUE, SubSeq([i \in 1..Len(bytes) |->
                    IF bytes[i] = 0 THEN NUL ELSE Ascii[bytes[i] - AsciiBase]],
                    1, Len(bytes))>>

\* One segment decoded and parsed: <<"return", value>> or <<"throw", ...>>.
decodeSegment(segment) ==
    Bind(fromBase64url(segment), LAMBDA bytes :
    Bind(IF bytes[1] THEN stringFromBytes(bytes[2]) ELSE <<FALSE, <<>>>>,
         LAMBDA text :
        IF text[1] THEN JSONparse(text[2]) ELSE <<"throw", Undefined>>))

\* Decode(token): <<"return", header, claims>>, or <<"throw", ...>>
\* (MalformedToken) unless the token has three segments whose first two decode.
Decode(token) ==
    Bind(split(token, "."), LAMBDA segments :
        IF Len(segments) # 3 THEN <<"throw", Undefined, Undefined>>
        ELSE Bind(decodeSegment(segments[1]), LAMBDA decodedHeader :
             Bind(decodeSegment(segments[2]), LAMBDA decodedClaims :
                IF decodedHeader[1] = "return" /\ decodedClaims[1] = "return"
                THEN <<"return", decodedHeader[2], decodedClaims[2]>>
                ELSE <<"throw", Undefined, Undefined>>)))

\* Verify(token, secret): the signature recomputed over the first two segments
\* equals the third.
Verify(token, secret) ==
    Bind(split(token, "."), LAMBDA segments :
        /\ Len(segments) = 3
        /\ stripPadding(replace(replace(
              hmacDigestBase64(secret, segments[1] \o <<".">> \o segments[2]),
              "+", "-"), "/", "_")) = segments[3])

\* claims[name], undefined when the claims hold no such member.
claim(claims, name) == getProperty(claims, name)[2]

\* Whether text holds the characters of word in a row.
contains(text, word) ==
    \E i \in 1..(Len(text) - Len(word) + 1) : startsWith(text, i, word)

returned(call) == call.result.outcome = "return"

APP_KEY == <<"a", "p", "p", "_", "k", "e", "y">>
ROLE_TYPE == <<"r", "o", "l", "e", "_", "t", "y", "p", "e">>
IAT == <<"i", "a", "t">>
EXP == <<"e", "x", "p">>
USER_ID == <<"u", "s", "e", "r", "_", "i", "d">>
USER_NAME == <<"u", "s", "e", "r", "_", "n", "a", "m", "e">>
ENABLE_BYOP == <<"e", "n", "a", "b", "l", "e", "_", "b", "y", "o", "p">>

(***************************************************************************)
(* Properties                                                              *)
(***************************************************************************)
\* The claims of the token a call returned.
claimsOf(call) == Decode(call.result.value)[3]

\* C1: no two calls of generateToken in one process run produce the same
\* user_id, also when they are made at the same clock reading.
C1_UserIdsNeverReused ==
    \A i, j \in 1..Len(issued) :
        (i < j /\ returned(issued[i]) /\ returned(issued[j]))
            => claim(claimsOf(issued[i]), USER_ID)
               # claim(claimsOf(issued[j]), USER_ID)

\* C2: every token's claims satisfy exp - iat = TOKEN_EXPIRY, with iat the
\* clock reading in whole seconds.
C2_ExpiryInvariant ==
    \A i \in 1..Len(issued) :
        returned(issued[i]) =>
            \E claims \in {claimsOf(issued[i])} :
                /\ typeOf(claim(claims, IAT)) = "number"
                /\ typeOf(claim(claims, EXP)) = "number"
                /\ valueOf(claim(claims, EXP)) - valueOf(claim(claims, IAT))
                   = TOKEN_EXPIRY
                /\ valueOf(claim(claims, IAT)) * MillisPerSecond <= issued[i].t1
                /\ issued[i].t1 < (valueOf(claim(claims, IAT)) + 1) * MillisPerSecond

\* A token issued at a clock reading that is not a whole second.
C2_Witness ==
    \E i \in 1..Len(issued) :
        /\ returned(issued[i])
        /\ issued[i].t1 % MillisPerSecond # 0
        /\ valueOf(claim(claimsOf(issued[i]), EXP))
           = (issued[i].t1 \div MillisPerSecond) + TOKEN_EXPIRY

\* C3: a call of generateToken whose key or secret is empty or absent returns
\* no token and fails.
C3_EmptyCredentialsRejected ==
    \A i \in 1..Len(issued) :
        (\/ issued[i].sdkKey \in {Undefined, Str(<<>>)}
         \/ issued[i].sdkSecret \in {Undefined, Str(<<>>)})
            => ~returned(issued[i])


(***************************************************************************)
(* The HTTP boundary, read back from the state                             *)
(***************************************************************************)
TOKEN == <<"t", "o", "k", "e", "n">>
ROLE == <<"r", "o", "l", "e">>
EXPIRES_IN == <<"e", "x", "p", "i", "r", "e", "s", "I", "n">>
DOMAIN_MEMBER == <<"d", "o", "m", "a", "i", "n">>
ERROR == <<"e", "r", "r", "o", "r">>

\* The JSON value of a text, undefined when the text is not JSON.
jsonOf(text) ==
    Bind(JSONparse(text), LAMBDA parsed :
        IF parsed[1] = "return" THEN parsed[2] ELSE Undefined)

\* Either credential still holds its placeholder.
holdsPlaceholder ==
    CONFIG.SDK_KEY = KEY_PLACEHOLDER \/ CONFIG.SDK_SECRET = SECRET_PLACEHOLDER

\* The last request was for /token.
tokenRequested == request.pathname = TOKEN_PATH

\* C4: while SDK_KEY or SDK_SECRET holds its placeholder, generateToken is
\* never invoked and no response carries a token; every /token request other
\* than an OPTIONS preflight is answered 500 with a JSON error message, which
\* is the configuration message unless reading the role of the POST body
\* threw first.
C4_PlaceholderRejected ==
    holdsPlaceholder =>
        /\ issued = <<>>
        /\ tokenRequested =>
            \E answer \in {jsonOf(response.body)} :
                /\ claim(answer, TOKEN) = Undefined
                /\ request.method # OPTIONS =>
                    /\ response.status = 500
                    /\ typeOf(claim(answer, ERROR)) = "string"
                    /\ valueOf(claim(answer, ERROR)) # <<>>
                    /\ \/ claim(answer, ERROR) = Str(UNCONFIGURED_MESSAGE)
                       \/ /\ request.method = POST
                          /\ jsonOf(request.body) = Null

\* A POST to /token of an unconfigured server, answered with the
\* configuration message.
C4_Witness ==
    /\ holdsPlaceholder
    /\ tokenRequested
    /\ request.method = POST
    /\ request.body = BODY_AGENT
    /\ response.status = 500
    /\ claim(jsonOf(response.body), ERROR) = Str(UNCONFIGURED_MESSAGE)

\* C4 as stated: while a credential holds its placeholder, every /token
\* request, of any method, is answered with a server error that carries a
\* message, generateToken is not invoked and the response holds no token.
C4_EveryTokenRequestRejected ==
    (holdsPlaceholder /\ tokenRequested) =>
        /\ response.status \in 500..599
        /\ typeOf(claim(jsonOf(response.body), ERROR)) = "string"
        /\ valueOf(claim(jsonOf(response.body), ERROR)) # <<>>
        /\ claim(jsonOf(response.body), TOKEN) = Undefined
        /\ issued = <<>>

C6_IntegerRoleEchoed ==
    (/\ tokenRequested
     /\ request.method = POST
     /\ ~holdsPlaceholder
     /\ typeOf(claim(jsonOf(request.body), ROLE)) = "number")
        => \E answer \in {jsonOf(response.body)} :
            /\ response.status = 200
            /\ typeOf(claim(answer, TOKEN)) = "string"
            /\ claim(answer, ROLE) = claim(jsonOf(request.body), ROLE)
            /\ claim(answer, EXPIRES_IN) = Num(TOKEN_EXPIRY)
            /\ claim(answer, DOMAIN_MEMBER) = Str(ZOOM_DOMAIN)
            /\ claim(Decode(valueOf(claim(answer, TOKEN)))[3], ROLE_TYPE)
               = claim(jsonOf(request.body), ROLE)

\* C7: the role_type of every token the endpoint issues is a number.
C7_RoleTypeNumeric ==
    \A i \in 1..Len(issued) :
        returned(issued[i]) =>
            typeOf(claim(claimsOf(issued[i]), ROLE_TYPE)) = "number"

\* C8: the segments of every token decode to the fixed header and to claims
\* with app_key the key passed, role_type the role passed (1 when none is),
\* enable_byop 1 and user_name equal to user_id; the key the server passes
\* is CONFIG.SDK_KEY, whatever the request body holds.
C8_RoundTrip ==
    \A i \in 1..Len(issued) :
        /\ issued[i].sdkKey = Str(CONFIG.SDK_KEY)
        /\ returned(issued[i]) =>
            \E decoded \in {Decode(issued[i].result.value)} :
                /\ decoded[1] = "return"
                /\ decoded[2] = header
                /\ claim(decoded[3], APP_KEY) = issued[i].sdkKey
                /\ claim(decoded[3], ROLE_TYPE)
                   = (IF issued[i].role = Undefined THEN Num(1)
                      ELSE issued[i].role)
                /\ claim(decoded[3], ENABLE_BYOP) = Num(1)
                /\ typeOf(claim(decoded[3], USER_ID)) = "string"
                /\ claim(decoded[3], USER_NAME) = claim(decoded[3], USER_ID)

\* A token for the customer page's body, which names another sdkKey than
\* the server's.
C8_Witness ==
    /\ Len(issued) = 1
    /\ returned(issued[1])
    /\ request.body = BODY_CUSTOMER
    /\ claim(jsonOf(request.body), <<"s", "d", "k", "K", "e", "y">>)
       # Str(CONFIG.SDK_KEY)
    /\ response.status = 200
    /\ claim(Decode(valueOf(claim(jsonOf(response.body), TOKEN)))[3], APP_KEY)
       = Str(KEY_123)
    /\ claim(claimsOf(issued[1]), ROLE_TYPE) = Num(1)


\* The segments of a token.
segmentsOf(call) == split(call.result.value, ".")

\* Two calls with the same arguments and the same clock readings.
sameInputs(a, b) ==
    /\ a.sdkKey = b.sdkKey
    /\ a.sdkSecret = b.sdkSecret
    /\ a.role = b.role
    /\ a.t1 = b.t1
    /\ a.t2 = b.t2

VerifierSecrets ==
    {<<>>, <<NUL>>, SECRET_456, SECRET_456 \o <<NUL>>, WRONG_SECRET}

\* A secret without the NUL characters at its end.
RECURSIVE withoutTrailingNul(_)
withoutTrailingNul(secret) ==
    IF secret # <<>> /\ secret[Len(secret)] = NUL
    THEN withoutTrailingNul(SubSeq(secret, 1, Len(secret) - 1))
    ELSE secret

\* C10: the third segment of a token is the HMAC-SHA256 of its first two
\* segments keyed by the secret passed to generateToken: it verifies with
\* that secret, and with another secret of at most 64 bytes exactly when the
\* two differ only by NUL characters at the end, which HMAC pads a key with.
C10_VerifyCorrect ==
    \A i \in 1..Len(issued) :
        returned(issued[i]) =>
            \E token \in {issued[i].result.value} :
                /\ Verify(token, valueOf(issued[i].sdkSecret))
                /\ \A other \in VerifierSecrets :
                    Verify(token, other)
                        <=> (withoutTrailingNul(other)
                             = withoutTrailingNul(valueOf(issued[i].sdkSecret)))

\* A token that verifies with its secret followed by a NUL and does not
\* verify with another secret.
C10_Witness ==
    \E i \in 1..Len(issued) :
        /\ returned(issued[i])
        /\ issued[i].sdkSecret = Str(SECRET_456)
        /\ Verify(issued[i].result.value, SECRET_456)
        /\ Verify(issued[i].result.value, SECRET_456 \o <<NUL>>)
        /\ ~Verify(issued[i].result.value, WRONG_SECRET)

\* C10 as stated: a token verifies with the secret it was made with and with
\* no other secret.
C10_OnlyTheSecretVerifies ==
    \A i \in 1..Len(issued) :
        returned(issued[i]) =>
            \A other \in VerifierSecrets :
                Verify(issued[i].result.value, other)
                    <=> (other = valueOf(issued[i].sdkSecret))


\* C15: a POST to /token of a configured server whose body is empty, is not
\* JSON, or is JSON that carries no role (null included) is answered 200 with
\* a token for the default role 1.
C15_RolelessPostSucceeds ==
    (/\ tokenRequested
     /\ request.method = POST
     /\ ~holdsPlaceholder
     /\ claim(jsonOf(request.body), ROLE) = Undefined)
        => \E answer \in {jsonOf(response.body)} :
            /\ response.status = 200
            /\ typeOf(claim(answer, TOKEN)) = "string"
            /\ claim(answer, ROLE) = Num(1)
            /\ claim(Decode(valueOf(claim(answer, TOKEN)))[3], ROLE_TYPE)
               = Num(1)

(***************************************************************************)
(* The customer page: generatePinCode (customer/main.js).                  *)
(*                                                                         *)
(* Math.random() returns a number r with 0 <= r < 1.  It is modelled as    *)
(* the fraction k / RandomResolution with k in 0 .. RandomResolution - 1,  *)
(* and random holds the numerators k still to come.                        *)
(***************************************************************************)
PIN_LENGTH == 8

PIN_CHARS ==
    <<"A", "B", "C", "D", "E", "F", "G", "H", "I", "J", "K", "L", "M", "N",
      "O", "P", "Q", "R", "S", "T", "U", "V", "W", "X", "Y", "Z", "0", "1",
      "2", "3", "4", "5", "6", "7", "8", "9">>

RandomResolution == 1000

\* The least, a middle and the greatest value Math.random() can return.
RandomOutcomes == {0, RandomResolution \div 2, RandomResolution - 1}

\* String.prototype.charAt: the empty string outside the string.
charAt(string, index) ==
    IF index \in 0..(Len(string) - 1) THEN <<string[index + 1]>> ELSE <<>>

\* Math.round of the fraction numerator / denominator.
mathFloor_round(numerator, denominator) ==
    (2 * numerator + denominator) \div (2 * denominator)

\* Math.floor of the fraction numerator / denominator.
mathFloor(numerator, denominator) == numerator \div denominator

\* The loop of generatePinCode from its i-th round on.
RECURSIVE pinLoop(_, _, _)
pinLoop(randoms, i, pin) ==
    IF i < PIN_LENGTH
    THEN pinLoop(randoms, i + 1,
                 pin \o charAt(PIN_CHARS,
                               mathFloor(randoms[i + 1] * Len(PIN_CHARS),
                                         RandomResolution)))
    ELSE pin

\* generatePinCode(), which reads Math.random() PIN_LENGTH times.
generatePinCode(randoms) == pinLoop(randoms, 0, <<>>)

PinInit ==
    /\ CONFIG = makeConfig(Undefined, Undefined)
    /\ clock = InitialClock
    /\ request = NoRequest
    /\ response = [status |-> 0, body |-> <<>>]
    /\ log = <<>>
    /\ issued = <<>>
    /\ customer = <<>>
    /\ agent = <<>>
    /\ random \in [1..PIN_LENGTH -> RandomOutcomes]
    /\ pinCode = Undefined

\* One call of generatePinCode.
GeneratePin ==
    /\ Len(random) >= PIN_LENGTH
    /\ pinCode' = Str(generatePinCode(random))
    /\ random' = SubSeq(random, PIN_LENGTH + 1, Len(random))
    /\ UNCHANGED <<CONFIG, clock, request, response, log, issued, customer,
                   agent>>

PinNext == GeneratePin

PinSpec == PinInit /\ [][PinNext]_vars

\* The characters A-Z and 0-9, by their character codes.
UpperAlphanumeric ==
    {Ascii[i] : i \in {j \in 1..Len(Ascii) :
                          \/ AsciiBase + j \in 65..90
                          \/ AsciiBase + j \in 48..57}}

\* C11: whatever Math.random() returns, the PIN generatePinCode makes has
\* exactly PIN_LENGTH = 8 characters, each one of A-Z0-9, and so is never
\* longer than 10 characters.
C11_PinWellFormed ==
    pinCode # Undefined =>
        /\ typeOf(pinCode) = "string"
        /\ Len(valueOf(pinCode)) = PIN_LENGTH
        /\ Len(valueOf(pinCode)) = 8
        /\ Len(valueOf(pinCode)) <= 10
        /\ \A i \in 1..Len(valueOf(pinCode)) :
            valueOf(pinCode)[i] \in UpperAlphanumeric

\* A PIN made of the first, a middle and the last character of the alphabet.
C11_Witness ==
    /\ pinCode # Undefined
    /\ random = <<>>
    /\ {valueOf(pinCode)[i] : i \in 1..Len(valueOf(pinCode))} = {"A", "S", "9"}

(***************************************************************************)
(* What the two pages share: the POST to the token server, the errors      *)
(* they catch and the SDK objects they are handed.                         *)
(*                                                                         *)
(* A message of the pages (status text, console line, error message) is    *)
(* the sequence of the parts its template is made of.  An error is an      *)
(* object: one thrown by the page or the browser has a message, one        *)
(* reported by the SDK has an errorMsg and no message.  The SDK itself is  *)
(* not part of the repository: its callbacks and events are inputs, and a  *)
(* session it hands out is <<"session", n>>, the n-th one of the page.     *)
(***************************************************************************)
SDK_KEY_MEMBER == <<"s", "d", "k", "K", "e", "y">>

MESSAGE == <<"m", "e", "s", "s", "a", "g", "e">>

ERROR_MSG == <<"e", "r", "r", "o", "r", "M", "s", "g">>

\* new Error(message)
Error(message) == Obj(<< <<MESSAGE, Str(message)>> >>)

SDK_ERROR == Obj(<< <<ERROR_MSG, Str(<<"errorMsg of the SDK">>)>> >>)

FAILED_TO_FETCH == Error(<<"Failed to fetch">>)

NOT_JSON == Error(<<"Unexpected token">>)

NO_SESSION == Error(<<"Cannot read properties of undefined (reading 'on')">>)

\* error.message || 'Unknown error'
messageOf(error) ==
    valueOf(or(claim(error, MESSAGE), Str(<<"Unknown error">>)))

\* error?.errorMsg || 'Unknown error'
errorMsgOf(error) ==
    valueOf(or(IF error \in {Null, Undefined} THEN Undefined
               ELSE claim(error, ERROR_MSG),
               Str(<<"Unknown error">>)))

Session(n) == <<"session", n>>

\* JSON.stringify({sdkKey: CONFIG.SDK_KEY, role: role}), the body posted.
postedBody(role) ==
    JSONstringify(Obj(<< <<SDK_KEY_MEMBER, Str(KEY_PLACEHOLDER)>>,
                         <<ROLE, Num(role)>> >>))

\* fetch(CONFIG.TOKEN_SERVER_URL, {method: 'POST', ...}) answered by the
\* server at time t, and what fetchSdkToken makes of the answer.
postForToken(config, role, t) ==
    Bind(handleRequest(config, POST, TOKEN_PATH, postedBody(role), "file",
                       t, t),
         LAMBDA handled :
            IF handled.response.status \notin 200..299
            THEN [outcome |-> "throw",
                  value |-> Error(<<"Token fetch failed: ">>
                             \o numberToString(handled.response.status)),
                  handled |-> handled]
            ELSE Bind(JSONparse(handled.response.body), LAMBDA data :
                    IF data[1] = "throw"
                    THEN [outcome |-> "throw", value |-> NOT_JSON,
                          handled |-> handled]
                    ELSE [outcome |-> "return",
                          value |-> claim(data[2], TOKEN),
                          handled |-> handled]))

\* The server's variables after it answered a page.
Answered(role, handled) ==
    /\ request' = [method |-> POST, pathname |-> TOKEN_PATH,
                   body |-> postedBody(role)]
    /\ response' = handled.response
    /\ log' = handled.log
    /\ issued' = issued \o handled.calls
    /\ UNCHANGED <<CONFIG, clock>>

\* The servers the pages run against: one left unconfigured, one configured.
PageConfigs ==
    {makeConfig(Undefined, Undefined),
     makeConfig(Str(KEY_123), Str(SECRET_456))}

\* The calls of joinSession in a run of the agent page.
MaxJoins == 2

\* The calls of startSession in a run of the customer page.
MaxStarts == 1

(***************************************************************************)
(* The agent page (agent/main.js).  The variable agent is a record:        *)
(*                                                                         *)
(*   currentSession  the module variable of that name                      *)
(*   status          the text of the status element                        *)
(*   console         the console lines of the handler that ran last        *)
(*   pc              where the running joinSession waits: "fetch" for the  *)
(*                   token, "init" for the init callback, else "idle"      *)
(*   calls           one record for each call of joinSession, oldest       *)
(*                   first: its argument, the token it got, the state of   *)
(*                   its promise and how its three steps went              *)
(*   sessions        the number of sessions the SDK handed out             *)
(*   listening       the sessions that carry the page's listeners          *)
(*                                                                         *)
(* The page's leaveSession is not modelled: nothing calls it and the       *)
(* module does not export it.                                              *)
(***************************************************************************)
AgentReady ==
    [currentSession |-> Null,
     status |-> <<"Ready">>,
     console |-> <<"[Agent] Status: Ready">>,
     pc |-> "idle",
     calls |-> <<>>,
     sessions |-> 0,
     listening |-> {}]

agentUpdateStatus(a, message) ==
    [a EXCEPT !.status = message,
              !.console = Append(@, "[Agent] Status:")]

\* The catch block of joinSession, entered from the step that failed.
joinCatch(a, step, error) ==
    agentUpdateStatus(
        [a EXCEPT !.console = Append(@, "[Agent] Error:"),
                  !.pc = "idle",
                  !.calls[Len(a.calls)] =
                      [@ EXCEPT ![step] = "failed", !.promise = "rejected"]],
        <<"Error: ">> \o messageOf(error))

\* joinSession(pinCode) up to its first await.
joinSession(a, typed) ==
    [a EXCEPT !.console = <<"[Agent] Joining session with PIN:">>,
              !.pc = "fetch",
              !.calls = Append(@, [pinCode |-> typed,
                                   sdkToken |-> Undefined,
                                   promise |-> "pending",
                                   fetch |-> "pending",
                                   init |-> "none",
                                   join |-> "none"])]

\* The agent's fetchSdkToken, answered at time t.
agentFetchSdkToken(config, t) == postForToken(config, 2, t)

\* joinSession from the end of fetchSdkToken to its second await.
joinFetched(a, fetched) ==
    IF fetched.outcome = "throw"
    THEN joinCatch([a EXCEPT !.console = <<>>], "fetch", fetched.value)
    ELSE [a EXCEPT !.console = <<"[Agent] Token received">>,
                   !.pc = "init",
                   !.calls[Len(a.calls)] =
                       [@ EXCEPT !.fetch = "ok", !.sdkToken = fetched.value,
                                 !.init = "pending"]]

\* joinSession from the init callback to its end.  A callback that reports
\* success hands over session, which is a session or undefined; one that
\* reports failure hands over error, which is an error or undefined.
joinInitialized(a, success, session, error) ==
    IF ~success
    THEN joinCatch([a EXCEPT !.console = <<>>], "init",
                   IF error # Undefined THEN error
                   ELSE Error(<<"SDK initialization failed">>))
    ELSE IF session = Undefined
    THEN joinCatch([a EXCEPT !.console = <<"[Agent] SDK initialized">>,
                             !.currentSession = Undefined,
                             !.sessions = a.sessions],
                   "init", NO_SESSION)
    ELSE [a EXCEPT !.console = <<"[Agent] SDK initialized">>,
                   !.currentSession = session,
                   !.sessions = session[2],
                   !.listening = @ \cup {session},
                   !.pc = "idle",
                   !.calls[Len(a.calls)] =
                       [@ EXCEPT !.init = "ok", !.join = "pending",
                                 !.promise = "fulfilled"]]

\* The callback passed to currentSession.join, for the n-th joinSession.
joinCallback(a, n, success, error) ==
    IF success
    THEN agentUpdateStatus(
             [a EXCEPT !.console = <<"[Agent] Join successful">>,
                       !.calls[n].join = "ok"],
             <<"Joined session">>)
    ELSE agentUpdateStatus(
             [a EXCEPT !.console = <<"[Agent] Join failed:">>,
                       !.calls[n].join = "failed"],
             <<"Join failed: ">> \o errorMsgOf(error))

AgentEvents ==
    {"session_joined", "session_left", "session_ended", "session_error",
     "customer_focus_lost", "customer_transferred"}

\* The listeners setupEventListeners registers.
agentListener(a, event, eventPayload) ==
    CASE event = "session_joined" ->
            agentUpdateStatus(
                [a EXCEPT !.console = <<"[Agent] Event: session_joined">>],
                <<"Connected to customer">>)
      [] event = "session_left" ->
            [agentUpdateStatus(
                [a EXCEPT !.console = <<"[Agent] Event: session_left">>],
                <<"Left session">>)
             EXCEPT !.currentSession = Null]
      [] event = "session_ended" ->
            [agentUpdateStatus(
                [a EXCEPT !.console = <<"[Agent] Event: session_ended">>],
                <<"Session ended">>)
             EXCEPT !.currentSession = Null]
      [] event = "session_error" ->
            agentUpdateStatus(
                [a EXCEPT !.console = <<"[Agent] Event: session_error">>],
                <<"Error: ">> \o errorMsgOf(eventPayload))
      [] OTHER -> [a EXCEPT !.console = <<"[Agent] Event: ", event>>]

\* The PINs the agent types: one a customer could show, and none.
TypedPins == {Str(<<"A", "B", "C", "1", "2", "3", "4", "5">>), Str(<<>>)}

AgentInit ==
    /\ CONFIG \in PageConfigs
    /\ clock = InitialClock
    /\ request = NoRequest
    /\ response = [status |-> 0, body |-> <<>>]
    /\ log = startupBanner(CONFIG)
    /\ issued = <<>>
    /\ customer = <<>>
    /\ agent = AgentReady
    /\ random = <<>>
    /\ pinCode = Undefined

AgentOnly == UNCHANGED <<CONFIG, clock, request, response, log, issued,
                         customer, random, pinCode>>

\* The agent clicks "Join Session".  One joinSession runs at a time.
JoinSession == \E typed \in TypedPins :
    /\ agent.pc = "idle"
    /\ Len(agent.calls) < MaxJoins
    /\ agent' = joinSession(agent, typed)
    /\ AgentOnly

\* The request for the token fails in the network, or the server answers it.
JoinTokenFetch ==
    /\ agent.pc = "fetch"
    /\ \/ /\ agent' = joinFetched(agent, [outcome |-> "throw",
                                            value |-> FAILED_TO_FETCH])
          /\ AgentOnly
       \/ \E fetched \in {agentFetchSdkToken(CONFIG, clock)} :
            /\ agent' = joinFetched(agent, fetched)
            /\ Answered(2, fetched.handled)
            /\ UNCHANGED <<customer, random, pinCode>>

\* The SDK calls the callback of init.
JoinInit ==
    /\ agent.pc = "init"
    /\ \E success \in BOOLEAN :
       \E session \in (IF success
                       THEN {Session(agent.sessions + 1), Undefined}
                       ELSE {Undefined}) :
       \E error \in (IF success THEN {Undefined}
                     ELSE {Undefined, SDK_ERROR}) :
            agent' = joinInitialized(agent, success, session, error)
    /\ AgentOnly

\* The SDK calls the callback of a join.
JoinCallback == \E n \in 1..Len(agent.calls) :
    /\ agent.calls[n].join = "pending"
    /\ \E success \in BOOLEAN :
       \E error \in (IF success THEN {Undefined}
                     ELSE {Undefined, SDK_ERROR}) :
            agent' = joinCallback(agent, n, success, error)
    /\ AgentOnly

\* A session that carries the listeners emits an event.
AgentEvent == \E event \in AgentEvents :
    /\ agent.listening # {}
    /\ agent' = agentListener(agent, event, SDK_ERROR)
    /\ AgentOnly

AgentNext ==
    \/ JoinSession
    \/ JoinTokenFetch
    \/ JoinInit
    \/ JoinCallback
    \/ AgentEvent

AgentSpec == AgentInit /\ [][AgentNext]_vars

\* C12: the promise joinSession returned is rejected whenever its token fetch
\* failed, its init callback reported failure or its join callback reported
\* failure.
C12_FailedJoinRejects ==
    \A n \in 1..Len(agent.calls) :
        (\/ agent.calls[n].fetch = "failed"
         \/ agent.calls[n].init = "failed"
         \/ agent.calls[n].join = "failed")
            => agent.calls[n].promise = "rejected"

(***************************************************************************)
(* The customer page (customer/main.js).  The variable customer is a       *)
(* record:                                                                 *)
(*                                                                         *)
(*   currentSession  the module variable of that name                      *)
(*   status          the text of the status element                        *)
(*   pinDisplay      the text of the PIN element, undefined while hidden   *)
(*   console         the console lines of the handler that ran last        *)
(*   calls           one record for each call of startSession, oldest      *)
(*                   first: the token and the PIN it got, the state of     *)
(*                   its promise, how its token fetch, its init, its       *)
(*                   listener registration and its start went, and the     *)
(*                   steps it has taken, in the order it took them         *)
(*   sessions        the number of sessions the SDK handed out             *)
(*   listening       the sessions that carry the page's listeners          *)
(*   started         the sessions start() was called on, oldest first      *)
(*   ended           the sessions end() was called on, oldest first        *)
(*                                                                         *)
(* The page has the elements 'status' and 'pin-display', and the methods   *)
(* of a session (on, start, end) return without throwing.                  *)
(***************************************************************************)
CustomerReady ==
    [currentSession |-> Null,
     status |-> <<"Ready">>,
     pinDisplay |-> Undefined,
     console |-> <<"[Customer] Status: Ready">>,
     calls |-> <<>>,
     sessions |-> 0,
     listening |-> {},
     started |-> <<>>,
     ended |-> <<>>]

updateStatus(c, message) ==
    [c EXCEPT !.status = message,
              !.console = Append(@, "[Customer] Status:")]

displayPinCode(c, pin) == [c EXCEPT !.pinDisplay = pin]

hidePinCode(c) == [c EXCEPT !.pinDisplay = Undefined]

\* One more step taken by the n-th startSession.
step(c, n, name) == [c EXCEPT !.calls[n].steps = Append(@, name)]

\* A catch block that shows the error and does not throw it again.
startCatch_swallows(c, n, stage, error) ==
    updateStatus(
        [c EXCEPT !.console = Append(@, "[Customer] Error:"),
                  !.calls[n] = [@ EXCEPT ![stage] = "failed",
                                         !.promise = "fulfilled"]],
        <<"Error: ">> \o messageOf(error))

\* The catch block of the n-th startSession, entered from the awaited step
\* that failed.
startCatch(c, n, stage, error) ==
    updateStatus(
        [c EXCEPT !.console = Append(@, "[Customer] Error:"),
                  !.calls[n] = [@ EXCEPT ![stage] = "failed",
                                         !.promise = "rejected"]],
        <<"Error: ">> \o messageOf(error))

\* startSession() up to its first await.
startSession(c) ==
    [c EXCEPT !.console = <<"[Customer] Starting session...">>,
              !.calls = Append(@, [sdkToken |-> Undefined,
                                   pinCode |-> Undefined,
                                   promise |-> "pending",
                                   fetch |-> "pending",
                                   init |-> "none",
                                   listeners |-> "none",
                                   start |-> "none",
                                   steps |-> <<"fetchSdkToken">>])]

\* The customer's fetchSdkToken, answered at time t.
customerFetchSdkToken(config, t) == postForToken(config, 1, t)

\* The n-th startSession from the end of fetchSdkToken to its second await.
startFetched(c, n, fetched, randoms) ==
    IF fetched.outcome = "throw"
    THEN startCatch([c EXCEPT !.console = <<>>], n, "fetch", fetched.value)
    ELSE step(step(
            [c EXCEPT !.console = <<"[Customer] Token received",
                                    "[Customer] Generated PIN:">>,
                      !.calls[n] =
                          [@ EXCEPT !.fetch = "ok",
                                    !.sdkToken = fetched.value,
                                    !.pinCode = Str(generatePinCode(randoms)),
                                    !.init = "pending"]],
            n, "generatePinCode"), n, "init")

\* The n-th startSession from the init callback to its third await.  A
\* callback that reports success hands over session, which is a session or
\* undefined; one that reports failure hands over error, which is an error
\* or undefined.
startInitialized(c, n, success, session, error) ==
    IF ~success
    THEN startCatch([c EXCEPT !.console = <<>>], n, "init",
                    or(error, Error(<<"SDK initialization failed">>)))
    ELSE IF session = Undefined
    THEN startCatch(
            step([c EXCEPT !.console = <<"[Customer] SDK initialized">>,
                           !.currentSession = Undefined,
                           !.calls[n].init = "ok"],
                 n, "setupEventListeners"),
            n, "listeners", NO_SESSION)
    ELSE step(step(
            [c EXCEPT !.console = <<"[Customer] SDK initialized">>,
                      !.currentSession = session,
                      !.sessions = session[2],
                      !.listening = @ \cup {session},
                      !.started = Append(@, session),
                      !.calls[n] = [@ EXCEPT !.init = "ok",
                                             !.listeners = "ok",
                                             !.start = "pending"]],
            n, "setupEventListeners"), n, "start")

\* The n-th startSession from the start callback to its end.
startStarted(c, n, success, error) ==
    IF ~success
    THEN startCatch([c EXCEPT !.console = <<>>], n, "start",
                    or(error, Error(<<"Session start failed">>)))
    ELSE step(displayPinCode(
                [c EXCEPT !.console = <<"[Customer] Session started">>,
                          !.calls[n] = [@ EXCEPT !.start = "ok",
                                                 !.promise = "fulfilled"]],
                c.calls[n].pinCode),
              n, "displayPinCode")

\* An endSession that ends the session and keeps the reference to it.
endSession_keepsReference(c) ==
    IF ~truthy(c.currentSession)
    THEN [c EXCEPT !.console = <<"[Customer] No active session">>]
    ELSE [c EXCEPT !.console = <<"[Customer] Ending session...">>,
                   !.ended = Append(@, c.currentSession)]

endSession(c) ==
    IF ~truthy(c.currentSession)
    THEN [c EXCEPT !.console = <<"[Customer] No active session">>]
    ELSE [c EXCEPT !.console = <<"[Customer] Ending session...">>,
                   !.ended = Append(@, c.currentSession),
                   !.currentSession = Null]

\* getSession of window.CobrowseCustomer
getSession(c) == c.currentSession

CustomerEvents ==
    {"session_started", "session_ended", "session_error", "agent_joined",
     "agent_left"}

\* The listeners setupEventListeners registers.
customerListener(c, event, eventPayload) ==
    CASE event = "session_started" ->
            updateStatus(
                [c EXCEPT !.console = <<"[Customer] Event: session_started">>],
                <<"Session started - waiting for agent">>)
      [] event = "session_ended" ->
            hidePinCode(
                [updateStatus(
                    [c EXCEPT !.console =
                                  <<"[Customer] Event: session_ended">>],
                    <<"Session ended">>)
                 EXCEPT !.currentSession = Null])
      [] event = "session_error" ->
            updateStatus(
                [c EXCEPT !.console = <<"[Customer] Event: session_error">>],
                <<"Error: ">> \o errorMsgOf(eventPayload))
      [] event = "agent_joined" ->
            updateStatus(
                [c EXCEPT !.console = <<"[Customer] Event: agent_joined">>],
                <<"Agent joined the session">>)
      [] event = "agent_left" ->
            updateStatus(
                [c EXCEPT !.console = <<"[Customer] Event: agent_left">>],
                <<"Agent left the session">>)

\* Two streams of Math.random(): its least value throughout, and its least,
\* a middle and its greatest value in turn.
RandomStreams ==
    {[i \in 1..(PIN_LENGTH * MaxStarts) |-> 0],
     [i \in 1..(PIN_LENGTH * MaxStarts) |->
        CASE i % 3 = 0 -> 0
          [] i % 3 = 1 -> RandomResolution \div 2
          [] OTHER -> RandomResolution - 1]}

CustomerInit ==
    /\ CONFIG \in PageConfigs
    /\ clock = InitialClock
    /\ request = NoRequest
    /\ response = [status |-> 0, body |-> <<>>]
    /\ log = startupBanner(CONFIG)
    /\ issued = <<>>
    /\ customer = CustomerReady
    /\ agent = <<>>
    /\ random \in RandomStreams
    /\ pinCode = Undefined

CustomerOnly == UNCHANGED <<CONFIG, clock, request, response, log, issued,
                            agent, random, pinCode>>

\* The customer clicks "Start Session".
StartSession ==
    /\ Len(customer.calls) < MaxStarts
    /\ customer' = startSession(customer)
    /\ CustomerOnly

\* The request for the token fails in the network, or the server answers it
\* and startSession goes on to make the PIN and call init.
StartTokenFetch == \E n \in 1..Len(customer.calls) :
    /\ customer.calls[n].fetch = "pending"
    /\ \/ /\ customer' = startFetched(customer, n,
                                      [outcome |-> "throw",
                                       value |-> FAILED_TO_FETCH], random)
          /\ CustomerOnly
       \/ \E fetched \in {customerFetchSdkToken(CONFIG, clock)} :
            /\ customer' = startFetched(customer, n, fetched, random)
            /\ Answered(1, fetched.handled)
            /\ IF fetched.outcome = "return"
               THEN /\ pinCode' = customer'.calls[n].pinCode
                    /\ random' = SubSeq(random, PIN_LENGTH + 1, Len(random))
               ELSE UNCHANGED <<random, pinCode>>
            /\ UNCHANGED agent

\* The SDK calls the callback of init.
StartInit == \E n \in 1..Len(customer.calls) :
    /\ customer.calls[n].init = "pending"
    /\ \E success \in BOOLEAN :
       \E session \in (IF success
                       THEN {Session(customer.sessions + 1), Undefined}
                       ELSE {Undefined}) :
       \E error \in (IF success THEN {Undefined}
                     ELSE {Undefined, SDK_ERROR}) :
            customer' = startInitialized(customer, n, success, session, error)
    /\ CustomerOnly

\* The SDK calls the callback of start.
StartCallback == \E n \in 1..Len(customer.calls) :
    /\ customer.calls[n].start = "pending"
    /\ \E success \in BOOLEAN :
       \E error \in (IF success THEN {Undefined}
                     ELSE {Undefined, SDK_ERROR}) :
            customer' = startStarted(customer, n, success, error)
    /\ CustomerOnly

\* The customer clicks "End Session".
EndSession ==
    /\ customer' = endSession(customer)
    /\ CustomerOnly

\* A session that carries the listeners emits an event.
CustomerEvent == \E event \in CustomerEvents :
    /\ customer.listening # {}
    /\ customer' = customerListener(customer, event, SDK_ERROR)
    /\ CustomerOnly

CustomerNext ==
    \/ StartSession
    \/ StartTokenFetch
    \/ StartInit
    \/ StartCallback
    \/ EndSession
    \/ CustomerEvent

CustomerSpec == CustomerInit /\ [][CustomerNext]_vars

\* The steps of startSession, in the order of its code.
StartOrder ==
    <<"fetchSdkToken", "generatePinCode", "init", "setupEventListeners",
      "start", "displayPinCode">>

isPrefix(s, t) == Len(s) <= Len(t) /\ \A i \in 1..Len(s) : s[i] = t[i]

\* Whether a status text is the one the catch block writes.
isError(status) == Len(status) > 0 /\ status[1] = "Error: "

\* The steps a call has taken when the stage named is its last one.
stepsUpTo(stage) ==
    CASE stage = "fetch" -> SubSeq(StartOrder, 1, 1)
      [] stage = "init" -> SubSeq(StartOrder, 1, 3)
      [] stage = "listeners" -> SubSeq(StartOrder, 1, 4)
      [] stage = "start" -> SubSeq(StartOrder, 1, 5)

\* The part of C13 that every state shows: the steps of each call are an
\* initial part of StartOrder, a step was taken only when the stage before
\* it went well, a call with a failed stage stopped there with its promise
\* rejected, and a PIN on display is the PIN of a call whose start callback
\* reported success.
C13_InOrder ==
    /\ \A n \in 1..Len(customer.calls) :
        \E call \in {customer.calls[n]} :
            /\ isPrefix(call.steps, StartOrder)
            /\ Len(call.steps) >= 2 => call.fetch = "ok"
            /\ Len(call.steps) >= 4 => call.init = "ok"
            /\ Len(call.steps) >= 5 => call.listeners = "ok"
            /\ Len(call.steps) >= 6 => call.start = "ok"
            /\ \A stage \in {"fetch", "init", "listeners", "start"} :
                call[stage] = "failed" =>
                    /\ call.steps = stepsUpTo(stage)
                    /\ call.promise = "rejected"
            /\ call.promise = "fulfilled" =>
                    /\ call.steps = StartOrder
                    /\ call.start = "ok"
            /\ call.promise = "rejected" =>
                    \E stage \in {"fetch", "init", "listeners", "start"} :
                        call[stage] = "failed"
    /\ \A i \in 1..Len(customer.started) :
        customer.started[i] \in customer.listening
    /\ customer.pinDisplay # Undefined =>
        \E n \in 1..Len(customer.calls) :
            /\ customer.calls[n].start = "ok"
            /\ customer.calls[n].pinCode = customer.pinDisplay

\* The part of C13 about the step that rejects a promise: it leaves an
\* error in the status.
C13_ErrorShown ==
    \A n \in 1..Len(customer'.calls) :
        (/\ customer'.calls[n].promise = "rejected"
         /\ n <= Len(customer.calls) => customer.calls[n].promise # "rejected")
            => isError(customer'.status)

\* C13: startSession takes its steps in the order token fetch, PIN
\* generation, SDK init, listener registration, session.start, PIN display,
\* each only after the one before it succeeded; start is never called on a
\* session without listeners, the PIN is shown only after the start callback
\* reported success, and a failed step (a non-OK token response included)
\* ends the call: no later step, an error in the status, a rejected promise.
C13_StartInOrder == [][C13_InOrder' /\ C13_ErrorShown]_vars

\* A startSession that took all six steps and shows its PIN.
C13_Witness ==
    \E n \in 1..Len(customer.calls) :
        /\ customer.calls[n].steps = StartOrder
        /\ customer.calls[n].promise = "fulfilled"
        /\ customer.pinDisplay = customer.calls[n].pinCode
        /\ typeOf(customer.calls[n].sdkToken) = "string"
        /\ customer.started = <<Session(1)>>

\* Whether the step is a run of endSession: the console holds its line.
endSessionRan ==
    customer'.console \in {<<"[Customer] No active session">>,
                           <<"[Customer] Ending session...">>}

\* The part of C14 that every state shows: after endSession no session is
\* current, so that one more endSession finds none, and end() was called on
\* no session twice.
C14_Cleaned ==
    /\ customer.console \in {<<"[Customer] No active session">>,
                             <<"[Customer] Ending session...">>}
            => ~truthy(getSession(customer))
    /\ customer.console = <<"[Customer] Ending session...">>
            => getSession(customer) = Null
    /\ \A i, j \in 1..Len(customer.ended) :
            customer.ended[i] = customer.ended[j] => i = j

\* C14: endSession with a session current calls end() once on that session
\* and leaves getSession() null; with none current it calls nothing and
\* changes nothing but the console, as does an endSession right after one.
C14_EndSessionCleansUp ==
    [][/\ C14_Cleaned'
       /\ endSessionRan =>
            IF truthy(getSession(customer))
            THEN /\ customer'.ended
                        = Append(customer.ended, getSession(customer))
                 /\ getSession(customer') = Null
            ELSE /\ customer' = [customer EXCEPT
                                    !.console =
                                        <<"[Customer] No active session">>]
                 /\ CustomerOnly]_vars

\* An endSession that found no session after one that ended a started one.
C14_Witness ==
    /\ customer.console = <<"[Customer] No active session">>
    /\ customer.ended = <<Session(1)>>
    /\ customer.started = <<Session(1)>>
    /\ getSession(customer) = Null

=============================================================================
